---- MODULE Spec2Model ----
(***************************************************************************)
(* Squinewave oscillator (SuperCollider UGen "Squine").                    *)
(*                                                                         *)
(* The model follows src/supercollider/plugins/Squine/Squine.cpp.          *)
(* Doubles are fixed-point integers: the double x is the integer x * Unit, *)
(* rounded toward minus infinity where a product or quotient is not        *)
(* representable.  Frequencies and the sample rate are integers in Hz;     *)
(* Min_Sweep is a double like the others (4.5 samples is 4.5 * Unit).      *)
(* Angles handed to cos are kept in units of pi / (3 * Unit) radians, so   *)
(* that pi, pi / 8 and pi / 9 are integers.  NaN and the two infinities    *)
(* are three reserved integers.                                            *)
(***************************************************************************)
EXTENDS Integers, Sequences, FiniteSets, TLC

VARIABLES
    sr,              \* sampleRate()
    Min_Sweep,       \* instance constants set by the constructor
    freq_param,      \* input_param objects: [host_sig, target, value, change]
    clip_param,
    skew_param,
    freq_update,     \* refresh the input at each block?
    clip_update,
    skew_update,
    sync_ar,
    phase,           \* oscillator state
    warped_phase,
    hardsync_phase,
    hardsync_inc,
    pc,              \* "new" | "ctor" | "first" | "sample" | "block"; "idle" | "ramp"
                     \* for a feed alone; "raw" | "resolved" for one sample's inputs;
                     \* "scan" | "scanned" for find_sync alone
    nSamples,        \* argument of the running call of next
    i,               \* loop index of next
    sync,            \* local of next: index of the pending trigger, or -1
    sync_sig,        \* in(3) of the running call
    out,             \* sound_out[i] written by the last iteration
    path,            \* branch the last iteration took
    wrapped,         \* the last iteration ran the wraparound block (sync_out[i])
    landed,          \* index of the last sync landing of the running call, or -1
    twin,            \* second oscillator run on the same inputs without the trigger
    cmp,             \* what the twin is compared for
    acc,             \* plain accumulator run beside phase (constant parameters)
    host,            \* what the host hands to the constructor / to one sample
    resolved,        \* freq, clip, skew as the loop body consumes them
    held,            \* value a block-rate feed held when reinit was called
    earlier          \* the earlier revision: members freq, non_sync_freq, clip,
                     \* skew and the rate flags; freq_inc, clip_inc, skew_inc of
                     \* its next

vars == <<sr, Min_Sweep, freq_param, clip_param, skew_param, freq_update,
          clip_update, skew_update, sync_ar, phase, warped_phase,
          hardsync_phase, hardsync_inc, pc, nSamples, i, sync, sync_sig,
          out, path, wrapped, landed, twin, cmp, acc, host, resolved, held,
          earlier>>

-----------------------------------------------------------------------------
(* Number representation *)

\* 1.0 as a fixed-point integer
Unit == 24

\* quiet NaN, +Inf and -Inf of a double
NaN == 2000000000
PosInf == 1000000000
NegInf == -1000000000

IsFinite(x) == x # NaN /\ x # PosInf /\ x # NegInf

\* IEEE comparisons: every comparison with NaN is false
Lt(x, y) == x # NaN /\ y # NaN /\ x < y
Le(x, y) == x # NaN /\ y # NaN /\ x <= y
Gt(x, y) == Lt(y, x)
Ge(x, y) == Le(y, x)

\* the infinity of the sign of a product or quotient
Signed(positive) == IF positive THEN PosInf ELSE NegInf

\* x + y and x - y of two doubles
Add(x, y) ==
    IF IsFinite(x) /\ IsFinite(y) THEN x + y
    ELSE IF x = NaN \/ y = NaN THEN NaN
    ELSE IF IsFinite(y) THEN x
    ELSE IF IsFinite(x) \/ x = y THEN y
    ELSE NaN
Neg(x) == IF x = NaN THEN NaN ELSE IF x = PosInf THEN NegInf
          ELSE IF x = NegInf THEN PosInf ELSE -x
Sub(x, y) == Add(x, Neg(y))

\* x * y and x / y of two doubles
Mul(x, y) ==
    IF IsFinite(x) /\ IsFinite(y) THEN (x * y) \div Unit
    ELSE IF x = NaN \/ y = NaN \/ x = 0 \/ y = 0 THEN NaN
    ELSE Signed((x > 0) = (y > 0))
Div(x, y) ==
    IF IsFinite(x) /\ IsFinite(y)
    THEN IF y = 0
         THEN IF x = 0 THEN NaN ELSE Signed(x > 0)
         ELSE (x * Unit) \div y
    ELSE IF x = NaN \/ y = NaN THEN NaN
    ELSE IF IsFinite(x) THEN 0
    ELSE IF IsFinite(y) THEN Signed((x > 0) = (y >= 0))
    ELSE NaN

\* fmin, fmax: a NaN operand is ignored
fmin(x, y) == IF x = NaN THEN y ELSE IF y = NaN THEN x ELSE IF x < y THEN x ELSE y
fmax(x, y) == IF x = NaN THEN y ELSE IF y = NaN THEN x ELSE IF x > y THEN x ELSE y

fabs(x) == IF x < 0 THEN -x ELSE x

\* quotient rounded toward zero
TruncDiv(x, n) == IF x >= 0 THEN x \div n ELSE -((-x) \div n)

\* pi, in the angle unit pi / (3 * Unit)
pi == 3 * Unit

\* cos of an angle a given in the angle unit, as a fixed-point value:
\* Bhaskara's rational approximation on the first quadrant, the other
\* quadrants by symmetry.  Exact at every multiple of pi / 2.
CosQuadrant(x) == (Unit * (pi * pi - 4 * x * x)) \div (pi * pi + x * x)
cos(a) ==
    LET r == a % (2 * pi)
        s == IF r > pi THEN 2 * pi - r ELSE r
    IN  IF ~IsFinite(a) THEN NaN
        ELSE IF 2 * s <= pi THEN CosQuadrant(s) ELSE -CosQuadrant(pi - s)

\* log(n) * 10000 for n = 1 .. 100
LogTable ==
    << 0, 6931, 10986, 13863, 16094, 17918, 19459, 20794, 21972, 23026,
       23979, 24849, 25649, 26391, 27081, 27726, 28332, 28904, 29444, 29957,
       30445, 30910, 31355, 31781, 32189, 32581, 32958, 33322, 33673, 34012,
       34340, 34657, 34965, 35264, 35553, 35835, 36109, 36376, 36636, 36889,
       37136, 37377, 37612, 37842, 38067, 38286, 38501, 38712, 38918, 39120,
       39318, 39512, 39703, 39890, 40073, 40254, 40431, 40604, 40775, 40943,
       41109, 41271, 41431, 41589, 41744, 41897, 42047, 42195, 42341, 42485,
       42627, 42767, 42905, 43041, 43175, 43307, 43438, 43567, 43694, 43820,
       43944, 44067, 44188, 44308, 44427, 44543, 44659, 44773, 44886, 44998,
       45109, 45218, 45326, 45433, 45539, 45643, 45747, 45850, 45951, 46052 >>
\* log(x) * 10000 of a whole x, or of x = n + 0.5 as log(2 n + 1) - log(2)
log(x) ==
    IF x % Unit = 0 THEN LogTable[x \div Unit]
    ELSE LogTable[(2 * x) \div Unit] - LogTable[2]

-----------------------------------------------------------------------------
(* Clamp and the input transforms *)

\* Clamp: the range test fails on NaN, then so does x < minval
Clamp(x, minval, maxval) ==
    IF Ge(x, minval) /\ Le(x, maxval) THEN x
    ELSE IF Lt(x, minval) THEN minval ELSE maxval

GET_FREQ(x) == fmax(x, 0)
GET_CLIP(x) == Unit - Clamp(x, 0, Unit)
GET_SKEW(x) == Unit - Clamp(x, -Unit, Unit)

-----------------------------------------------------------------------------
(* input_param *)

check_finished(p) ==
    IF p.change # 0 /\ fabs(p.value - p.target) <= fabs(p.change)
    THEN [p EXCEPT !.value = p.target, !.change = 0]
    ELSE p

\* changerate is 1. / sample_count at the only call site
set_target(p, val, sample_count) ==
    check_finished([p EXCEPT !.target = val,
                             !.change = TruncDiv(val - p.value, sample_count)])

init(host_sig_in, is_audiorate) ==
    IF is_audiorate
    THEN [host_sig |-> TRUE, target |-> 0, value |-> 0, change |-> 0]
    ELSE [host_sig |-> FALSE, target |-> 0, value |-> host_sig_in, change |-> 0]

reinit(p, host_sig_in, sample_count) ==
    IF p.host_sig THEN p ELSE set_target(p, host_sig_in, sample_count)

\* variant: the ramp is not tested for its end
get_next_unchecked(p, host_n) ==
    IF p.host_sig
    THEN [p EXCEPT !.value = host_n]
    ELSE [p EXCEPT !.value = p.value + p.change]

\* host_n is host_sig[n]
get_next(p, host_n) ==
    IF p.host_sig
    THEN [p EXCEPT !.value = host_n]
    ELSE check_finished([p EXCEPT !.value = p.value + p.change])

get_current(p) == p.value

-----------------------------------------------------------------------------
(* Instance constants.  o is the Squine object: a record of its members. *)

\* Maxphase_By_sr * freq, with Maxphase_By_sr = 2.0 / sr
PhaseInc(o, freq) == (2 * Unit * freq) \div o.sr

Max_Warp_Freq(o) == (o.sr * Unit) \div (2 * o.Min_Sweep)
Max_Sync_Freq(o) == (o.sr * 10000) \div ((16667 * log(o.Min_Sweep)) \div 10000)
Max_Warp(o) == (Unit * Unit) \div o.Min_Sweep

-----------------------------------------------------------------------------
(* The geometry of a cycle: the sweep down takes [0, sweep_length), the     *)
(* flat -1 part lasts up to midpoint, the sweep up takes sweep_length from *)
(* midpoint and the flat +1 part lasts up to 2.                            *)

\* min_sweep = phase_inc * Min_Sweep
MinSweep(o, phase_inc) == Mul(phase_inc, o.Min_Sweep)

\* midpoint = Clamp(skew, min_sweep, 2.0 - min_sweep)
Midpoint(skew, min_sweep) == Clamp(skew, min_sweep, 2 * Unit - min_sweep)

\* variant: a sweep has no shortest length
SweepLength_unfloored(clip, span, min_sweep) == Mul(clip, span)

\* sweep_length = fmax(clip * span, min_sweep); span is midpoint for the
\* sweep down and 2.0 - midpoint for the sweep up
SweepLength(clip, span, min_sweep) == fmax(Mul(clip, span), min_sweep)

\* flat_length of the flat -1 part and of the flat +1 part
FlatLengthMinus(midpoint, sweep_length) == midpoint - sweep_length
FlatLengthPlus(midpoint, sweep_length) == 2 * Unit - (midpoint + sweep_length)

-----------------------------------------------------------------------------
(* init_phase: set main phase so it matches warp *)

\* variant: phase is the seed itself, not scaled into its segment
init_phase_unscaled(o, phase_in, freq, clip, skew) ==
    LET w0 == IF Lt(phase_in, 0) THEN (5 * Unit) \div 4 ELSE phase_in
        w == IF Gt(w0, 2 * Unit) THEN w0 % (2 * Unit) ELSE w0
    IN  [o EXCEPT !.phase = w,
                  !.warped_phase =
                      IF Lt(w, Unit \div 2) THEN w * 2
                      ELSE IF Lt(w, Unit) THEN Unit
                      ELSE IF Lt(w, (3 * Unit) \div 2) THEN Unit + (w - Unit) * 2
                      ELSE 2 * Unit]

init_phase(o, phase_in, freq, clip, skew) ==
    LET phase_inc == PhaseInc(o, freq)
        min_sweep == MinSweep(o, phase_inc)
        midpoint == Midpoint(skew, min_sweep)
        w0 == IF Lt(phase_in, 0) THEN (5 * Unit) \div 4 ELSE phase_in
        w == IF Gt(w0, 2 * Unit) THEN w0 % (2 * Unit) ELSE w0
    IN  IF Lt(w, Unit)
        THEN LET sweep_length == SweepLength(clip, midpoint, min_sweep)
             IN  IF Lt(w, Unit \div 2)
                 THEN [o EXCEPT !.phase = Mul(sweep_length, w * 2),
                                !.warped_phase = w * 2]
                 ELSE LET flat_length == FlatLengthMinus(midpoint, sweep_length)
                      IN  [o EXCEPT !.phase = sweep_length
                                        + Mul(flat_length, (w - Unit \div 2) * 2),
                                    !.warped_phase = Unit]
        ELSE LET sweep_length == SweepLength(clip, 2 * Unit - midpoint, min_sweep)
             IN  IF Lt(w, (3 * Unit) \div 2)
                 THEN [o EXCEPT !.phase = midpoint
                                    + Mul(sweep_length, (w - Unit) * 2),
                                !.warped_phase = Unit + (w - Unit) * 2]
                 ELSE LET flat_length == FlatLengthPlus(midpoint, sweep_length)
                      IN  [o EXCEPT !.phase = midpoint + sweep_length
                                        + Mul(flat_length, (w - (3 * Unit) \div 2) * 2),
                                    !.warped_phase = 2 * Unit]

-----------------------------------------------------------------------------
(* find_sync: sync_sig is 1-based here, the indices are the 0-based ones *)

\* variant: a value of exactly 1.0 is not a trigger
RECURSIVE find_sync_above_one(_, _, _)
find_sync_above_one(sig, first, last) ==
    IF first >= last THEN -1
    ELSE IF Gt(sig[first + 1], Unit) THEN first
    ELSE find_sync_above_one(sig, first + 1, last)

RECURSIVE find_sync(_, _, _)
find_sync(sig, first, last) ==
    IF first >= last THEN -1
    ELSE IF Ge(sig[first + 1], Unit) THEN first
    ELSE find_sync(sig, first + 1, last)

-----------------------------------------------------------------------------
(* hardsync_init *)

\* variant: a request on the last flat part is dropped
hardsync_init_flat_dropped(o, freq) ==
    IF o.hardsync_phase # 0 THEN o
    ELSE IF o.warped_phase = 2 * Unit THEN o
    ELSE IF freq > Max_Sync_Freq(o) THEN o
    ELSE [o EXCEPT !.hardsync_inc = Div(pi, o.Min_Sweep),
                   !.hardsync_phase = Div(pi, o.Min_Sweep) \div 2]

\* variant: the frequency ceiling is not tested
hardsync_init_any_freq(o, freq) ==
    IF o.hardsync_phase # 0 THEN o
    ELSE IF o.warped_phase = 2 * Unit THEN [o EXCEPT !.phase = 2 * Unit]
    ELSE [o EXCEPT !.hardsync_inc = Div(pi, o.Min_Sweep),
                   !.hardsync_phase = Div(pi, o.Min_Sweep) \div 2]

\* variant: a request during a sweep starts the sweep again
hardsync_init_restart(o, freq) ==
    IF o.warped_phase = 2 * Unit THEN [o EXCEPT !.phase = 2 * Unit]
    ELSE IF freq > Max_Sync_Freq(o) THEN o
    ELSE [o EXCEPT !.hardsync_inc = Div(pi, o.Min_Sweep),
                   !.hardsync_phase = Div(pi, o.Min_Sweep) \div 2]

hardsync_init(o, freq) ==
    IF o.hardsync_phase # 0 THEN o
    ELSE IF o.warped_phase = 2 * Unit THEN [o EXCEPT !.phase = 2 * Unit]
    ELSE IF freq > Max_Sync_Freq(o) THEN o
    ELSE [o EXCEPT !.hardsync_inc = Div(pi, o.Min_Sweep),
                   !.hardsync_phase = Div(pi, o.Min_Sweep) \div 2]

-----------------------------------------------------------------------------
(* One iteration of the loop of next, in the order of the code.  Each part *)
(* maps the object (and the locals it changes) to their new values.        *)

\* hardsync requested?
SyncRequest(o, sync_idx, idx, freq) ==
    IF idx = sync_idx THEN hardsync_init(o, freq) ELSE o

\* variant: the sweep moves hardsync_phase and leaves freq as it came
HardsyncSweep_unboosted(o, freq) ==
    IF o.hardsync_phase # 0
    THEN LET hp == o.hardsync_phase + o.hardsync_inc
         IN  IF hp > pi
             THEN [o |-> [o EXCEPT !.hardsync_phase = pi, !.hardsync_inc = 0],
                   freq |-> freq]
             ELSE [o |-> [o EXCEPT !.hardsync_phase = hp], freq |-> freq]
    ELSE [o |-> o, freq |-> freq]

\* variant: the sweep is over once hardsync_phase passes pi
HardsyncSweep_ends_at_pi(o, freq) ==
    IF o.hardsync_phase # 0
    THEN LET syncsweep == (Unit - cos(o.hardsync_phase)) \div 2
             f == freq + Mul(syncsweep, Max_Sync_Freq(o) - freq)
             hp == o.hardsync_phase + o.hardsync_inc
         IN  IF hp > pi
             THEN [o |-> [o EXCEPT !.hardsync_phase = 0, !.hardsync_inc = 0],
                   freq |-> f]
             ELSE [o |-> [o EXCEPT !.hardsync_phase = hp], freq |-> f]
    ELSE [o |-> o, freq |-> freq]

\* hardsync ongoing? Increase freq until wraparound.  [o, freq]
HardsyncSweep(o, freq) ==
    IF o.hardsync_phase # 0
    THEN LET syncsweep == (Unit - cos(o.hardsync_phase)) \div 2
             f == freq + Mul(syncsweep, Max_Sync_Freq(o) - freq)
             hp == o.hardsync_phase + o.hardsync_inc
         IN  IF hp > pi
             THEN [o |-> [o EXCEPT !.hardsync_phase = pi, !.hardsync_inc = 0],
                   freq |-> f]
             ELSE [o |-> [o EXCEPT !.hardsync_phase = hp], freq |-> f]
    ELSE [o |-> o, freq |-> freq]

\* variant: phase is not taken over from warped_phase
PureSine_keeps_phase(o, phase_inc) ==
    [o |-> [o EXCEPT !.warped_phase = Add(o.warped_phase, phase_inc)],
     out |-> cos(Mul(pi, o.warped_phase)), path |-> "sine"]

\* Pure sine: continue from warped
PureSine(o, phase_inc) ==
    [o |-> [o EXCEPT !.phase = o.warped_phase,
                     !.warped_phase = Add(o.warped_phase, phase_inc)],
     out |-> cos(Mul(pi, o.warped_phase)), path |-> "sine"]

\* 1st half, warped_phase < 1.0: sweep down
SweepDown(o, phase_inc, clip, min_sweep, midpoint) ==
    LET sweep_length == SweepLength(clip, midpoint, min_sweep)
        w == Add(o.warped_phase, fmin(Div(phase_inc, sweep_length), Max_Warp(o)))
        flat_length == FlatLengthMinus(midpoint, sweep_length)
        phase_overshoot == Mul(w - Unit, sweep_length)
        next_sweep_length == SweepLength(clip, 2 * Unit - midpoint, min_sweep)
    IN  [o |-> IF Gt(w, Unit)
               THEN [o EXCEPT
                       !.phase = midpoint - flat_length + phase_overshoot - phase_inc,
                       !.warped_phase =
                           IF flat_length >= phase_overshoot THEN Unit
                           ELSE Unit + Div(phase_overshoot - flat_length,
                                           next_sweep_length)]
               ELSE [o EXCEPT !.warped_phase = w],
         out |-> cos(Mul(pi, o.warped_phase)), path |-> "down"]

\* 1st half, warped_phase == 1.0: flat up to midpoint
FlatMinus(o) ==
    [o |-> [o EXCEPT !.warped_phase = Unit], out |-> -Unit, path |-> "flat-"]

\* 2nd half, warped_phase < 2.0: sweep up
SweepUp(o, phase_inc, clip, min_sweep, midpoint) ==
    LET sweep_length == SweepLength(clip, 2 * Unit - midpoint, min_sweep)
        \* warped_phase overshoot after flat part
        w0 == IF o.warped_phase = Unit
              THEN Unit + fmin(Div(fmin(Sub(o.phase, midpoint), phase_inc),
                                       sweep_length),
                               Max_Warp(o))
              ELSE o.warped_phase
        w == w0 + fmin(Div(phase_inc, sweep_length), Max_Warp(o))
        flat_length == FlatLengthPlus(midpoint, sweep_length)
        phase_overshoot == Mul(w - 2 * Unit, sweep_length)
        next_sweep_length == SweepLength(clip, midpoint, min_sweep)
    IN  [o |-> IF w > 2 * Unit
               THEN [o EXCEPT
                       !.phase = 2 * Unit - flat_length + phase_overshoot - phase_inc,
                       !.warped_phase =
                           IF flat_length >= phase_overshoot THEN 2 * Unit
                           ELSE 2 * Unit + Div(phase_overshoot - flat_length,
                                               next_sweep_length)]
               ELSE [o EXCEPT !.warped_phase = w],
         out |-> cos(Mul(pi, w0)), path |-> "up"]

\* 2nd half, warped_phase >= 2.0: flat +1
FlatPlus(o) ==
    [o |-> [o EXCEPT !.warped_phase = 2 * Unit], out |-> Unit, path |-> "flat+"]

\* The four segments, chosen by warped_phase and by phase against midpoint
Segments(o, phase_inc, clip, skew) ==
    LET min_sweep == MinSweep(o, phase_inc)
        midpoint == Midpoint(skew, min_sweep)
    IN  IF \/ Lt(o.warped_phase, Unit)
           \/ (o.warped_phase = Unit /\ Lt(o.phase, midpoint))
        THEN IF Lt(o.warped_phase, Unit)
             THEN SweepDown(o, phase_inc, clip, min_sweep, midpoint)
             ELSE FlatMinus(o)
        ELSE IF Lt(o.warped_phase, 2 * Unit)
             THEN SweepUp(o, phase_inc, clip, min_sweep, midpoint)
             ELSE FlatPlus(o)

\* Pure sine if freq >= sr / (2 * Min_Sweep), else the segments; then
\* phase += phase_inc
Advance(o, freq, phase_inc, clip, skew) ==
    LET r == IF freq >= Max_Warp_Freq(o)
             THEN PureSine(o, phase_inc)
             ELSE Segments(o, phase_inc, clip, skew)
    IN  [r EXCEPT !.o.phase = Add(r.o.phase, phase_inc)]

\* The wraparound condition
AtWrap(o) == Ge(o.warped_phase, 2 * Unit) /\ Ge(o.phase, 2 * Unit)

\* Phase wraparound while a hardsync sweep is on: the landing
Landing(o) ==
    [o EXCEPT !.warped_phase = 0, !.phase = 0,
              !.hardsync_phase = 0, !.hardsync_inc = 0]

\* variant: the landing searches the block from its first sample
Rearm_from_start(sig, idx, n) == find_sync(sig, 0, n)

\* Where the landing looks for the next trigger
Rearm(sig, idx, n) == find_sync(sig, idx, n)

\* variant: the wrapped phase is kept whatever its size
Wraparound_unguarded(o, freq, phase_inc, clip, skew) ==
    LET p == Sub(o.phase, 2 * Unit)
        min_sweep == MinSweep(o, phase_inc)
        midpoint == Midpoint(skew, min_sweep)
        next_sweep_length == SweepLength(clip, midpoint, min_sweep)
    IN  [o EXCEPT !.phase = p,
                  !.warped_phase =
                      IF freq < Max_Warp_Freq(o)
                      THEN fmin(Div(p, next_sweep_length), Max_Warp(o))
                      ELSE p]

\* Phase wraparound of the free-running oscillator
Wraparound(o, freq, phase_inc, clip, skew) ==
    LET p0 == Sub(o.phase, 2 * Unit)
        \* wild aliasing freq - just reset
        p == IF Gt(p0, phase_inc) THEN phase_inc \div 2 ELSE p0
        min_sweep == MinSweep(o, phase_inc)
        midpoint == Midpoint(skew, min_sweep)
        next_sweep_length == SweepLength(clip, midpoint, min_sweep)
    IN  [o EXCEPT !.phase = p,
                  !.warped_phase =
                      IF freq < Max_Warp_Freq(o)
                      THEN fmin(Div(p, next_sweep_length), Max_Warp(o))
                      ELSE p]

\* The whole iteration for sample idx of a call with n samples and sync
\* input sig, from freq, clip, skew as GET_FREQ, GET_CLIP, GET_SKEW gave
\* them.  The result holds the new object and sync, the sample written, and
\* what the iteration went through.
SampleStep(o, sync_idx, freq, clip, skew, idx, sig, n) ==
    LET o1 == SyncRequest(o, sync_idx, idx, freq)
        sw == HardsyncSweep(o1, freq)
        phase_inc == PhaseInc(o, sw.freq)
        adv == Advance(sw.o, sw.freq, phase_inc, clip, skew)
        wrap == AtWrap(adv.o)
        land == wrap /\ adv.o.hardsync_phase # 0
    IN  [o |-> IF land THEN Landing(adv.o)
               ELSE IF wrap THEN Wraparound(adv.o, sw.freq, phase_inc, clip, skew)
               ELSE adv.o,
         sync |-> IF land THEN Rearm(sig, idx, n) ELSE sync_idx,
         out |-> adv.out,
         path |-> adv.path,
         wrapped |-> wrap,
         land |-> land,
         requested |-> o1,
         swept |-> sw.o,
         freq |-> sw.freq,
         phase_inc |-> phase_inc,
         advanced |-> adv.o]

-----------------------------------------------------------------------------
(* The constructor.  h is what the host hands over: the sample rate, the   *)
(* first value and the rate of inputs 0..3, the scalar inputs 4 and 5 and  *)
(* the next draw of the random generator.  this holds the members as the   *)
(* memory was before the constructor ran: phase and warped_phase have no   *)
(* initialiser.                                                            *)

\* Allow range 4-sr/100, randomize if below (eg zero or -1)
MinSweepCtor(in4, drand) ==
    IF Lt(in4, 4 * Unit) \/ Gt(in4, 100 * Unit)
    THEN IF Lt(in4, 4 * Unit)
         THEN (Clamp(10 * drand + 5 * Unit, 5 * Unit, 15 * Unit) \div Unit) * Unit
         ELSE 100 * Unit
    ELSE in4

\* The members after the constructor's body, before its call next(1)
Squine(h, this) ==
    LET o0 == [sr |-> h.sr,
               Min_Sweep |-> MinSweepCtor(h.in4, h.drand),
               phase |-> this.phase,
               warped_phase |-> this.warped_phase,
               hardsync_phase |-> 0,
               hardsync_inc |-> 0]
        startphase == IF Lt(h.in5, 0) \/ Gt(h.in5, 2 * Unit)
                      THEN (5 * Unit) \div 4 ELSE h.in5
    IN  [o |-> IF h.in5 # 0
               THEN init_phase(o0, startphase, GET_FREQ(h.in0), GET_CLIP(h.in1),
                               GET_SKEW(h.in2))
               ELSE o0,
         freq_param |-> init(h.in0, h.rate0 = "audio"),
         clip_param |-> init(h.in1, h.rate1 = "audio"),
         skew_param |-> init(h.in2, h.rate2 = "audio"),
         freq_update |-> h.rate0 \in {"audio", "control"},
         clip_update |-> h.rate1 \in {"audio", "control"},
         skew_update |-> h.rate2 \in {"audio", "control"},
         sync_ar |-> h.rate3 = "audio"]

-----------------------------------------------------------------------------
(* Bounds and the values the host supplies *)

\* samples per call of next after the constructor's next(1)
BlockLen == 2

\* in(0)[i], in(1)[i], in(2)[i], in(3)[i]
HostFreq == {3000, 12000, 24000}
HostClip == {Unit \div 3, Unit}
HostSkew == {-(Unit \div 2), Unit \div 2}
HostSync == {0, Unit}

\* what uninitialised memory may hold in phase and warped_phase
Garbage ==
    {<<0, 0>>, <<Unit \div 2, 0>>, <<3 * Unit, 2 * Unit>>, <<NaN, NaN>>,
     <<NegInf, NegInf>>}

HostConfig(srate, r0, r3, f, c, k, ms, sp, rnd) ==
    [sr |-> srate, rate0 |-> r0, rate1 |-> r0, rate2 |-> r0, rate3 |-> r3,
     in0 |-> f, in1 |-> c, in2 |-> k, in4 |-> ms, in5 |-> sp, drand |-> rnd]

\* voices with a start phase
SeededConfigs ==
    { HostConfig(48000, "audio", "audio", f, Unit, -(Unit \div 2), 4 * Unit, sp, 0) :
        f \in {3000, 24000}, sp \in {Unit \div 4, (5 * Unit) \div 4} }

\* voices without one: phase and warped_phase are never assigned
UnseededConfigs ==
    { HostConfig(48000, "audio", "audio", 3000, Unit, -(Unit \div 2), 4 * Unit, 0, 0) }

Configs == SeededConfigs \cup UnseededConfigs

\* the constructor's arguments, once next(1) has read them
NoHost == <<>>

\* the members of the earlier revision, in a voice of the later one
NoEarlier == <<>>

-----------------------------------------------------------------------------
(* The state machine *)

This ==
    [sr |-> sr, Min_Sweep |-> Min_Sweep, phase |-> phase,
     warped_phase |-> warped_phase, hardsync_phase |-> hardsync_phase,
     hardsync_inc |-> hardsync_inc]

\* constant parameters and no sync input
ConstRun == ~freq_update /\ ~clip_update /\ ~skew_update /\ ~sync_ar

\* a plain phase accumulator: add, and take 2 off on reaching 2
Accumulate(a, phase_inc) ==
    IF ~IsFinite(a) THEN a
    ELSE IF a + phase_inc >= 2 * Unit THEN a + phase_inc - 2 * Unit
    ELSE a + phase_inc

NoTrigger(n) == [j \in 1..n |-> 0]
Triggers(sig) == {j \in 1..Len(sig) : Ge(sig[j], Unit)}

\* Members and locals nothing has touched yet
Untouched ==
    /\ sr = 0
    /\ Min_Sweep = 0
    /\ hardsync_phase = 0
    /\ hardsync_inc = 0
    /\ freq_update = FALSE
    /\ clip_update = FALSE
    /\ skew_update = FALSE
    /\ sync_ar = FALSE
    /\ nSamples = 0
    /\ i = 0
    /\ sync = -1
    /\ sync_sig = <<>>
    /\ out = 0
    /\ path = "none"
    /\ wrapped = FALSE
    /\ landed = -1
    /\ twin = [o |-> This, out |-> 0]
    /\ cmp = "off"
    /\ acc = 0
    /\ resolved = <<>>
    /\ held = 0
    /\ earlier = NoEarlier

\* The memory before the constructor runs
Allocated(h, mem) ==
    /\ host = h
    /\ phase = mem[1]
    /\ warped_phase = mem[2]
    /\ freq_param = init(0, FALSE)
    /\ clip_param = init(0, FALSE)
    /\ skew_param = init(0, FALSE)
    /\ pc = "new"
    /\ Untouched

InitOf(configs) == \E h \in configs, mem \in Garbage : Allocated(h, mem)

\* The constructor's body, up to its call next(1)
Construct ==
    /\ pc = "new"
    /\ LET c == Squine(host, This)
       IN  /\ sr' = c.o.sr
           /\ Min_Sweep' = c.o.Min_Sweep
           /\ phase' = c.o.phase
           /\ warped_phase' = c.o.warped_phase
           /\ hardsync_phase' = c.o.hardsync_phase
           /\ hardsync_inc' = c.o.hardsync_inc
           /\ freq_param' = c.freq_param
           /\ clip_param' = c.clip_param
           /\ skew_param' = c.skew_param
           /\ freq_update' = c.freq_update
           /\ clip_update' = c.clip_update
           /\ skew_update' = c.skew_update
           /\ sync_ar' = c.sync_ar
           /\ twin' = [o |-> c.o, out |-> 0]
           /\ acc' = IF \/ c.freq_update \/ c.clip_update \/ c.skew_update
                        \/ c.sync_ar
                     THEN 0 ELSE c.o.phase
    /\ pc' = "ctor"
    /\ UNCHANGED <<earlier, nSamples, i, sync, sync_sig, out, path, wrapped, landed,
                   cmp, host, resolved, held>>

\* what in(k)[0] may hold when next is called: the constructor's call sees
\* the value the constructor read
BlockValue(update, p, first, values) ==
    IF pc = "ctor" THEN {first}
    ELSE IF update /\ ~p.host_sig THEN values ELSE {0}

\* next(nSamples) up to its loop: refresh the inputs, look for sync.  freqs,
\* clips, skews are the values the host may supply.
NextCallOf(freqs, clips, skews) ==
    /\ pc \in {"ctor", "block"}
    /\ LET n == IF pc = "ctor" THEN 1 ELSE BlockLen
       IN  \E sig \in IF sync_ar THEN [1..n -> HostSync] ELSE {NoTrigger(n)},
              f \in BlockValue(freq_update, freq_param, host.in0, freqs),
              c \in BlockValue(clip_update, clip_param, host.in1, clips),
              k \in BlockValue(skew_update, skew_param, host.in2, skews) :
             /\ freq_param' = IF freq_update THEN reinit(freq_param, f, n)
                                             ELSE freq_param
             /\ clip_param' = IF clip_update THEN reinit(clip_param, c, n)
                                             ELSE clip_param
             /\ skew_param' = IF skew_update THEN reinit(skew_param, k, n)
                                             ELSE skew_param
             /\ sync' = IF sync_ar THEN find_sync(sig, 0, n) ELSE -1
             /\ sync_sig' = sig
             /\ nSamples' = n
    /\ i' = 0
    /\ landed' = -1
    /\ cmp' = "off"
    /\ twin' = [o |-> This, out |-> out]
    /\ pc' = IF pc = "ctor" THEN "first" ELSE "sample"
    /\ UNCHANGED <<earlier, sr, Min_Sweep, freq_update, clip_update, skew_update, sync_ar,
                   phase, warped_phase, hardsync_phase, hardsync_inc, out, path,
                   wrapped, acc, host, resolved, held>>

\* what in(k)[i] may hold
SampleValue(p, first, values) ==
    IF pc = "first" THEN {first}
    ELSE IF p.host_sig THEN values ELSE {0}

\* One iteration of the loop of next
SampleOf(freqs, clips, skews) ==
    /\ pc \in {"first", "sample"}
    /\ \E hf \in SampleValue(freq_param, host.in0, freqs),
          hc \in SampleValue(clip_param, host.in1, clips),
          hk \in SampleValue(skew_param, host.in2, skews) :
         LET fp == get_next(freq_param, hf)
             cp == get_next(clip_param, hc)
             kp == get_next(skew_param, hk)
             freq == GET_FREQ(fp.value)
             clip == GET_CLIP(cp.value)
             skew == GET_SKEW(kp.value)
             cmp1 == IF /\ Triggers(sync_sig) = {i + 1}
                        /\ freq > Max_Sync_Freq(This)
                     THEN IF warped_phase = 2 * Unit
                          THEN "suppressed on flat" ELSE "suppressed"
                     ELSE cmp
             last == i + 1 = nSamples
         IN  \E r \in {SampleStep(This, sync, freq, clip, skew, i, sync_sig,
                                  nSamples)} :
             \* the same sample without the trigger
             \E t \in {IF cmp1 = "off" THEN r
                       ELSE SampleStep(IF cmp = "off" THEN This ELSE twin.o, -1,
                                       freq, clip, skew, i, NoTrigger(nSamples),
                                       nSamples)} :
             /\ freq_param' = fp
             /\ clip_param' = cp
             /\ skew_param' = kp
             /\ phase' = r.o.phase
             /\ warped_phase' = r.o.warped_phase
             /\ hardsync_phase' = r.o.hardsync_phase
             /\ hardsync_inc' = r.o.hardsync_inc
             /\ out' = r.out
             /\ path' = r.path
             /\ wrapped' = r.wrapped
             /\ twin' = IF cmp1 = "off"
                        THEN [o |-> r.o, out |-> r.out]
                        ELSE [o |-> t.o, out |-> t.out]
             /\ cmp' = cmp1
             /\ acc' = IF ConstRun THEN Accumulate(acc, r.phase_inc) ELSE acc
             /\ sync' = IF last THEN -1 ELSE r.sync
             /\ landed' = IF last THEN -1 ELSE IF r.land THEN i ELSE landed
             /\ sync_sig' = IF last THEN <<>> ELSE sync_sig
             /\ i' = IF last THEN 0 ELSE i + 1
             /\ pc' = IF last THEN "block" ELSE "sample"
    /\ host' = NoHost
    /\ UNCHANGED <<earlier, sr, Min_Sweep, freq_update, clip_update, skew_update, sync_ar,
                   nSamples, resolved, held>>

NextCall == NextCallOf(HostFreq, HostClip, HostSkew)

Sample == SampleOf(HostFreq, HostClip, HostSkew)

Next == Construct \/ NextCall \/ Sample

Init == InitOf(Configs)

Spec == Init /\ [][Next]_vars

\* voices constructed with a start phase only
SpecSeeded == InitOf(SeededConfigs) /\ [][Next]_vars

-----------------------------------------------------------------------------
(* Voices with constant parameters: scalar-rate freq, clip and skew and no *)
(* audio-rate sync.  Every sweep length that arises divides phase_inc *    *)
(* Unit, so the arithmetic of the model is exact for these voices.         *)

\* in0(1), in0(2) at 1000 Hz
ConstShapes ==
    {<<Unit, 0>>, <<(3 * Unit) \div 4, 0>>, <<(2 * Unit) \div 3, 0>>,
     <<Unit \div 2, 0>>, <<0, 0>>,
     <<(2 * Unit) \div 3, Unit \div 2>>, <<Unit \div 3, Unit \div 2>>,
     <<(2 * Unit) \div 3, -(Unit \div 2)>>, <<Unit \div 3, -(Unit \div 2)>>}

\* in0(5); 0 is the voice without a start phase
ConstSeeds == {0, Unit \div 4, (3 * Unit) \div 4, (5 * Unit) \div 4,
               (7 * Unit) \div 4}

ConstConfigs ==
    { HostConfig(48000, "scalar", "scalar", 1000, sh[1], sh[2], 4 * Unit, sp, 0) :
        sh \in ConstShapes, sp \in ConstSeeds }
    \cup
    { HostConfig(48000, "scalar", "scalar", 3000, c, 0, 4 * Unit, sp, 0) :
        c \in {0, Unit}, sp \in ConstSeeds }

SpecConst == InitOf(ConstConfigs) /\ [][Next]_vars

\* the same voices, those without a start phase left out
SpecConstSeeded ==
    InitOf({h \in ConstConfigs : h.in5 # 0}) /\ [][Next]_vars

-----------------------------------------------------------------------------
(* Voices driven to the edges of the input ranges: freq 0, clip_in 0 and   *)
(* 1, skew_in -1 and 1, with audio-rate inputs and sync.                   *)

EdgeFreq == {0, 3000, 12000}
EdgeClip == {0, Unit}
EdgeSkew == {-Unit, Unit}

EdgeSeededConfigs ==
    { HostConfig(48000, "audio", "audio", f, 0, Unit, 4 * Unit, sp, 0) :
        f \in {0, 12000}, sp \in {Unit \div 4, (5 * Unit) \div 4} }

EdgeUnseededConfigs ==
    { HostConfig(48000, "audio", "audio", 12000, 0, Unit, 4 * Unit, 0, 0) }

EdgeNextCall == NextCallOf(EdgeFreq, EdgeClip, EdgeSkew)

EdgeSample == SampleOf(EdgeFreq, EdgeClip, EdgeSkew)

NextEdge == Construct \/ EdgeNextCall \/ EdgeSample

SpecEdge ==
    InitOf(EdgeSeededConfigs \cup EdgeUnseededConfigs) /\ [][NextEdge]_vars

\* voices constructed with a start phase only
SpecEdgeSeeded == InitOf(EdgeSeededConfigs) /\ [][NextEdge]_vars

-----------------------------------------------------------------------------
(* Voices under sync whose freq is 0 or 12000 Hz at any sample, with the   *)
(* host calling next for ever.                                             *)

SweepFreq == {0, 12000}
SweepClip == {0, Unit}
SweepSkew == {Unit}

SweepNextCall == NextCallOf(SweepFreq, SweepClip, SweepSkew)

SweepSample == SampleOf(SweepFreq, SweepClip, SweepSkew)

NextSweep == Construct \/ SweepNextCall \/ SweepSample

\* Where a step of the constructor or of next leaves the voice; each of
\* these steps moves pc or i
Running ==
    /\ pc' \in {"ctor", "first", "sample", "block"}
    /\ i' \in 0..BlockLen

\* the host goes on calling next, and the loop of next goes on to its end
SpecSweep ==
    /\ InitOf(EdgeSeededConfigs \cup EdgeUnseededConfigs)
    /\ [][NextSweep]_vars
    /\ WF_<<pc, i>>(Running)

\* voices constructed with a start phase only
SpecSweepSeeded ==
    /\ InitOf(EdgeSeededConfigs)
    /\ [][NextSweep]_vars
    /\ WF_<<pc, i>>(Running)

-----------------------------------------------------------------------------
(* The sweep's envelope over settings of in0(4), 4 samples and 4.5 samples, *)
(* for voices constructed with a start phase                               *)

EnvelopeMinSweep == {4 * Unit, (9 * Unit) \div 2}

EnvelopeConfigs ==
    { HostConfig(48000, "audio", "audio", f, 0, Unit, ms, sp, 0) :
        f \in SweepFreq, ms \in EnvelopeMinSweep,
        sp \in {Unit \div 4, (5 * Unit) \div 4} }

SpecEnvelope == InitOf(EnvelopeConfigs) /\ [][NextSweep]_vars

-----------------------------------------------------------------------------
(* The constructor alone, over sample rates, Min_Sweep settings in0(4) and *)
(* draws of the random generator                                           *)

SampleRates == {8000, 44100, 48000, 96000}
MinSweepSettings ==
    {x * Unit : x \in {-1, 0, 3, 4, 10, 80, 90, 100, 101, 500, 1000}}
Draws == {0, Unit \div 2, Unit - 1}

CtorConfigs ==
    { HostConfig(srate, "control", "audio", 1000, 0, 0, ms, sp, rnd) :
        srate \in SampleRates, ms \in MinSweepSettings, sp \in {0, Unit \div 4},
        rnd \in Draws }

SpecCtor == InitOf(CtorConfigs) /\ [][Construct]_vars

-----------------------------------------------------------------------------
(* A block-rate feed alone: reinit at the start of a block of 1..MaxBlock  *)
(* samples, then one get_next for each sample of the block.                *)

\* longest block
MaxBlock == 4

\* in(k)[0] of a control-rate input, block after block
FeedValues == {0, 60, 120, 1200, 3000}

InitFeed ==
    \E v \in FeedValues :
       /\ host = NoHost
       /\ phase = 0
       /\ warped_phase = 0
       /\ freq_param = init(v, FALSE)
       /\ clip_param = init(0, FALSE)
       /\ skew_param = init(0, FALSE)
       /\ pc = "idle"
       /\ Untouched

FeedReinit ==
    /\ pc = "idle"
    /\ \E n \in 1..MaxBlock, v \in FeedValues :
          /\ freq_param' = reinit(freq_param, v, n)
          /\ nSamples' = n
    /\ held' = freq_param.value
    /\ i' = 0
    /\ pc' = "ramp"
    /\ UNCHANGED <<earlier, sr, Min_Sweep, clip_param, skew_param, freq_update, clip_update,
                   skew_update, sync_ar, phase, warped_phase, hardsync_phase,
                   hardsync_inc, sync, sync_sig, out, path, wrapped, landed, twin,
                   cmp, acc, host, resolved>>

FeedGet ==
    /\ pc = "ramp"
    /\ freq_param' = get_next(freq_param, 0)
    /\ i' = i + 1
    /\ pc' = IF i + 1 = nSamples THEN "idle" ELSE "ramp"
    /\ UNCHANGED <<earlier, sr, Min_Sweep, clip_param, skew_param, freq_update, clip_update,
                   skew_update, sync_ar, phase, warped_phase, hardsync_phase,
                   hardsync_inc, nSamples, sync, sync_sig, out, path, wrapped,
                   landed, twin, cmp, acc, host, resolved, held>>

NextFeed == FeedReinit \/ FeedGet

SpecFeed == InitFeed /\ [][NextFeed]_vars

-----------------------------------------------------------------------------
(* The inputs of one sample alone: what the loop body gets from audio-rate *)
(* feeds for any value the host may put in in(0)[i], in(1)[i], in(2)[i].   *)

RawValues ==
    {NaN, PosInf, NegInf, -(2 * Unit), -Unit, 0, Unit \div 2, Unit, 2 * Unit}

InitInputs ==
    \E a \in RawValues, b \in RawValues, c \in RawValues :
       /\ host = [in0 |-> a, in1 |-> b, in2 |-> c]
       /\ phase = 0
       /\ warped_phase = 0
       /\ freq_param = init(0, TRUE)
       /\ clip_param = init(0, TRUE)
       /\ skew_param = init(0, TRUE)
       /\ pc = "raw"
       /\ Untouched

\* double freq = GET_FREQ(freq_param.get_next(i)); and so on
Resolve ==
    /\ pc = "raw"
    /\ freq_param' = get_next(freq_param, host.in0)
    /\ clip_param' = get_next(clip_param, host.in1)
    /\ skew_param' = get_next(skew_param, host.in2)
    /\ resolved' = [freq |-> GET_FREQ(freq_param'.value),
                    clip |-> GET_CLIP(clip_param'.value),
                    skew |-> GET_SKEW(skew_param'.value)]
    /\ pc' = "resolved"
    /\ UNCHANGED <<earlier, sr, Min_Sweep, freq_update, clip_update, skew_update, sync_ar,
                   phase, warped_phase, hardsync_phase, hardsync_inc, nSamples, i,
                   sync, sync_sig, out, path, wrapped, landed, twin, cmp, acc,
                   host, held>>

SpecInputs == InitInputs /\ [][Resolve]_vars

-----------------------------------------------------------------------------
(* The constructor alone, over start phases in0(5): in range, negative,    *)
(* and above 2                                                             *)

StartPhases ==
    {-Unit, -(Unit \div 2), Unit \div 4, Unit \div 2, (3 * Unit) \div 4, Unit,
     (5 * Unit) \div 4, (3 * Unit) \div 2, (7 * Unit) \div 4, 2 * Unit,
     (5 * Unit) \div 2, (13 * Unit) \div 4, (15 * Unit) \div 4}

\* in0(1), in0(2)
SeedShapes ==
    {<<0, 0>>, <<Unit \div 2, 0>>, <<Unit, 0>>, <<Unit \div 2, Unit \div 2>>,
     <<Unit \div 2, -(Unit \div 2)>>, <<0, Unit>>, <<0, -Unit>>}

SeedConfigs ==
    { HostConfig(48000, "scalar", "scalar", f, sh[1], sh[2], 4 * Unit, sp, 0) :
        f \in {0, 1000, 3000}, sh \in SeedShapes, sp \in StartPhases }

SpecSeeds == InitOf(SeedConfigs) /\ [][Construct]_vars

-----------------------------------------------------------------------------
(* find_sync alone: a sync buffer of SigLen samples and a window first,    *)
(* last anywhere in it, empty windows included.  The call's arguments are  *)
(* held in sync_sig, i and nSamples, its result goes to sync.              *)

\* samples in the sync buffer
SigLen == 3

\* in(3)[i]
SigValues == {NaN, NegInf, 0, Unit - 1, Unit, Unit + 1, PosInf}

InitFind ==
    \E sig \in [1..SigLen -> SigValues], first \in 0..SigLen, last \in 0..SigLen :
       /\ host = NoHost
       /\ phase = 0
       /\ warped_phase = 0
       /\ freq_param = init(0, FALSE)
       /\ clip_param = init(0, FALSE)
       /\ skew_param = init(0, FALSE)
       /\ pc = "scan"
       /\ sr = 0
       /\ Min_Sweep = 0
       /\ hardsync_phase = 0
       /\ hardsync_inc = 0
       /\ freq_update = FALSE
       /\ clip_update = FALSE
       /\ skew_update = FALSE
       /\ sync_ar = TRUE
       /\ nSamples = last
       /\ i = first
       /\ sync = -1
       /\ sync_sig = sig
       /\ out = 0
       /\ path = "none"
       /\ wrapped = FALSE
       /\ landed = -1
       /\ twin = [o |-> This, out |-> 0]
       /\ cmp = "off"
       /\ acc = 0
       /\ resolved = <<>>
       /\ held = 0
       /\ earlier = NoEarlier

\* sync = find_sync(in(3), first, last)
Find ==
    /\ pc = "scan"
    /\ sync' = find_sync(sync_sig, i, nSamples)
    /\ pc' = "scanned"
    /\ UNCHANGED <<earlier, sr, Min_Sweep, freq_param, clip_param, skew_param, freq_update,
                   clip_update, skew_update, sync_ar, phase, warped_phase,
                   hardsync_phase, hardsync_inc, nSamples, i, sync_sig, out, path,
                   wrapped, landed, twin, cmp, acc, host, resolved, held>>

SpecFind == InitFind /\ [][Find]_vars

-----------------------------------------------------------------------------
(* The earlier revision, src/plugins/Squine/Squine.cpp.  freq, clip and     *)
(* skew are members there, a control-rate input is ramped by an increment   *)
(* computed at the start of the block, and a sweep raises the member freq.  *)
(* The members both revisions have are the variables of the later one; the  *)
(* others, and the increments of next, are the fields of earlier.  init_phase,*)
(* find_sync and the loop body from the pure-sine test to the free          *)
(* wraparound are the same code in both.                                    *)

\* Allow range 4-sr/100
Earlier_MinSweepCtor(in4, drand, srate) ==
    IF Lt(in4, 4 * Unit) \/ Gt(in4, (srate * Unit) \div 100)
    THEN (Clamp(10 * drand + 5 * Unit, 5 * Unit, 15 * Unit) \div Unit) * Unit
    ELSE in4

\* The members after the constructor's body, before its call next(1)
Earlier_Squine(h, this) ==
    LET e == [freq |-> h.in0,
              non_sync_freq |-> h.in0,
              clip |-> Unit - Clamp(h.in1, -Unit, Unit),
              skew |-> Unit - Clamp(h.in2, 0, Unit),
              freq_ar |-> h.rate0 = "audio",
              clip_ar |-> h.rate1 = "audio",
              skew_ar |-> h.rate2 = "audio",
              freq_kr |-> h.rate0 = "control",
              clip_kr |-> h.rate1 = "control",
              skew_kr |-> h.rate2 = "control",
              freq_inc |-> 0, clip_inc |-> 0, skew_inc |-> 0,
              calls |-> 0]
        o0 == [sr |-> h.sr,
               Min_Sweep |-> Earlier_MinSweepCtor(h.in4, h.drand, h.sr),
               phase |-> this.phase,
               warped_phase |-> this.warped_phase,
               hardsync_phase |-> 0,
               hardsync_inc |-> 0]
        startphase == IF Lt(h.in5, 0) THEN (5 * Unit) \div 4 ELSE h.in5
    IN  [o |-> IF h.in5 # 0
               THEN init_phase(o0, startphase, e.freq, e.clip, e.skew)
               ELSE o0,
         e |-> e,
         sync_ar |-> h.rate3 = "audio"]

Earlier_hardsync_init(o, freq) ==
    IF o.hardsync_phase # 0 THEN o
    ELSE IF o.warped_phase = 2 * Unit THEN [o EXCEPT !.phase = 2 * Unit]
    ELSE IF freq > Max_Warp_Freq(o) THEN o
    ELSE [o EXCEPT !.hardsync_inc = Div(pi, o.Min_Sweep),
                   !.hardsync_phase = Div(pi, o.Min_Sweep) \div 2]

\* hardsync ongoing?
Earlier_HardsyncSweep(o, freq) ==
    IF o.hardsync_phase # 0
    THEN LET syncsweep == (Unit - cos(o.hardsync_phase)) \div 2
             f == freq + Mul(syncsweep, 2 * Max_Warp_Freq(o) - freq)
             hp == o.hardsync_phase + o.hardsync_inc
         IN  IF hp > pi
             THEN [o |-> [o EXCEPT !.hardsync_phase = pi, !.hardsync_inc = 0],
                   freq |-> f]
             ELSE [o |-> [o EXCEPT !.hardsync_phase = hp], freq |-> f]
    ELSE [o |-> o, freq |-> freq]

\* freq_inc, clip_inc, skew_inc of a call of next with n samples, from
\* in0(0), in0(1), in0(2); calls counts the calls
Earlier_Increments(e, f, c, k, n) ==
    [e EXCEPT
       !.calls = e.calls + 1,
       !.freq_inc = IF e.freq_kr THEN (f - e.freq) \div n ELSE 0,
       !.clip_inc = IF e.clip_kr
                    THEN ((Unit - Clamp(c, 0, Unit)) - e.clip) \div n ELSE 0,
       !.skew_inc = IF e.skew_kr
                    THEN ((Unit - Clamp(k, -Unit, Unit)) - e.skew) \div n ELSE 0]

\* The whole iteration for sample idx; freq_n, clip_n, skew_n are
\* freq_sig[idx], clip_sig[idx], skew_sig[idx]
Earlier_SampleStep(o, e, sync_idx, freq_n, clip_n, skew_n, idx, sig, n) ==
    LET \* KR values pre-inc'd monotonously here
        freq1 == IF e.freq_kr THEN e.freq + e.freq_inc
                 ELSE IF e.freq_ar THEN fmax(freq_n, 0)
                 ELSE e.freq
        non_sync_freq == IF e.freq_kr \/ e.freq_ar THEN freq1
                         ELSE e.non_sync_freq
        clip1 == IF e.clip_kr THEN Clamp(e.clip + e.clip_inc, 0, Unit) ELSE e.clip
        skew1 == IF e.skew_kr THEN Clamp(e.skew + e.skew_inc, -Unit, Unit)
                 ELSE e.skew
        o1 == IF idx = sync_idx THEN Earlier_hardsync_init(o, freq1) ELSE o
        sw == Earlier_HardsyncSweep(o1, freq1)
        phase_inc == PhaseInc(o, sw.freq)
        \* AR values updated as needed
        shaped == sw.freq < Max_Warp_Freq(o)
        clip2 == IF shaped /\ e.clip_ar THEN Unit - Clamp(clip_n, 0, Unit)
                 ELSE clip1
        skew2 == IF shaped /\ e.skew_ar THEN Unit - Clamp(skew_n, -Unit, Unit)
                 ELSE skew1
        adv == Advance(sw.o, sw.freq, phase_inc, clip2, skew2)
        wrap == AtWrap(adv.o)
        land == wrap /\ adv.o.hardsync_phase # 0
    IN  [o |-> IF land THEN Landing(adv.o)
               ELSE IF wrap THEN Wraparound(adv.o, sw.freq, phase_inc, clip2, skew2)
               ELSE adv.o,
         e |-> [e EXCEPT !.freq = IF land THEN non_sync_freq ELSE sw.freq,
                         !.non_sync_freq = non_sync_freq,
                         !.clip = clip2,
                         !.skew = skew2],
         sync |-> IF land THEN find_sync(sig, idx, n) ELSE sync_idx,
         out |-> adv.out,
         path |-> adv.path,
         wrapped |-> wrap,
         land |-> land]

\* in0(0), in0(1), in0(2) block after block, and the samples of the
\* audio-rate inputs
\* calls of next in the life of a voice, the constructor's included
MaxCalls == 4

EarlierFreq == {1000, 3000}
EarlierClip == {-(Unit \div 2), 0, Unit}
EarlierSkew == {-(Unit \div 2), Unit \div 2}

\* voices with a start phase, all inputs static, all control-rate or all
\* audio-rate
EarlierConfigs ==
    { HostConfig(48000, r, "audio", f, c, k, 4 * Unit, Unit \div 4, 0) :
        r \in {"scalar", "control", "audio"}, f \in EarlierFreq,
        c \in EarlierClip, k \in EarlierSkew }

\* The constructor's body, up to its call next(1).  twin is the freq of the
\* same voice when no trigger ever comes.
EarlierConstruct ==
    /\ pc = "new"
    /\ LET c == Earlier_Squine(host, This)
       IN  /\ sr' = c.o.sr
           /\ Min_Sweep' = c.o.Min_Sweep
           /\ phase' = c.o.phase
           /\ warped_phase' = c.o.warped_phase
           /\ hardsync_phase' = c.o.hardsync_phase
           /\ hardsync_inc' = c.o.hardsync_inc
           /\ sync_ar' = c.sync_ar
           /\ earlier' = c.e
           /\ twin' = [freq |-> c.e.freq, freq_inc |-> 0]
    /\ pc' = "ctor"
    /\ UNCHANGED <<freq_param, clip_param, skew_param, freq_update, clip_update,
                   skew_update, nSamples, i, sync, sync_sig, out, path, wrapped,
                   landed, cmp, acc, host, resolved, held>>

\* next(nSamples) up to its loop
EarlierNextCall ==
    /\ pc \in {"ctor", "block"}
    /\ earlier.calls < MaxCalls
    /\ LET n == IF pc = "ctor" THEN 1 ELSE BlockLen
       IN  \E sig \in IF sync_ar THEN [1..n -> HostSync] ELSE {NoTrigger(n)},
              f \in IF pc = "ctor" THEN {host.in0} ELSE EarlierFreq,
              c \in IF pc = "ctor" THEN {host.in1} ELSE EarlierClip,
              k \in IF pc = "ctor" THEN {host.in2} ELSE EarlierSkew :
             /\ earlier' = Earlier_Increments(earlier, f, c, k, n)
             /\ twin' = [twin EXCEPT
                           !.freq_inc = IF earlier.freq_kr
                                        THEN (f - twin.freq) \div n ELSE 0]
             /\ host' = [in0 |-> f, in1 |-> c, in2 |-> k]
             /\ sync' = IF sync_ar THEN find_sync(sig, 0, n) ELSE -1
             /\ sync_sig' = sig
             /\ nSamples' = n
    /\ i' = 0
    /\ landed' = -1
    /\ pc' = IF pc = "ctor" THEN "first" ELSE "sample"
    /\ UNCHANGED <<sr, Min_Sweep, freq_param, clip_param, skew_param, freq_update,
                   clip_update, skew_update, sync_ar, phase, warped_phase,
                   hardsync_phase, hardsync_inc, out, path, wrapped, cmp, acc,
                   resolved, held>>

\* what an audio-rate input holds at sample i: in0 is its first sample
EarlierSampleValue(is_ar, first, values) ==
    IF ~is_ar THEN {0} ELSE IF i = 0 THEN {first} ELSE values

\* One iteration of the loop of next
EarlierSample ==
    /\ pc \in {"first", "sample"}
    /\ \E hf \in EarlierSampleValue(earlier.freq_ar, host.in0, EarlierFreq),
          hc \in EarlierSampleValue(earlier.clip_ar, host.in1, EarlierClip),
          hk \in EarlierSampleValue(earlier.skew_ar, host.in2, EarlierSkew) :
         LET last == i + 1 = nSamples
         IN  \E r \in {Earlier_SampleStep(This, earlier, sync, hf, hc, hk, i,
                                          sync_sig, nSamples)} :
             /\ phase' = r.o.phase
             /\ warped_phase' = r.o.warped_phase
             /\ hardsync_phase' = r.o.hardsync_phase
             /\ hardsync_inc' = r.o.hardsync_inc
             /\ earlier' = r.e
             /\ twin' = [twin EXCEPT
                           !.freq = IF earlier.freq_kr THEN twin.freq + twin.freq_inc
                                    ELSE IF earlier.freq_ar THEN fmax(hf, 0)
                                    ELSE twin.freq]
             /\ out' = r.out
             /\ path' = r.path
             /\ wrapped' = r.wrapped
             /\ sync' = IF last THEN -1 ELSE r.sync
             /\ landed' = IF r.land THEN i ELSE landed
             /\ sync_sig' = IF last THEN <<>> ELSE sync_sig
             /\ i' = IF last THEN 0 ELSE i + 1
             /\ pc' = IF last THEN "block" ELSE "sample"
    /\ UNCHANGED <<sr, Min_Sweep, freq_param, clip_param, skew_param, freq_update,
                   clip_update, skew_update, sync_ar, nSamples, cmp, acc, host,
                   resolved, held>>

NextEarlier == EarlierConstruct \/ EarlierNextCall \/ EarlierSample

SpecEarlier == InitOf(EarlierConfigs) /\ [][NextEarlier]_vars

-----------------------------------------------------------------------------
(* Phase range *)

\* a sample boundary: the loop of next has run at least one iteration
AtBoundary == pc \in {"sample", "block"}

\* C1: after every per-sample step, 0 <= phase <= 2 and
\* 0 <= warped_phase <= 2.
C1_PhaseBound ==
    AtBoundary => /\ 0 <= phase /\ phase <= 2 * Unit
                  /\ 0 <= warped_phase /\ warped_phase <= 2 * Unit

-----------------------------------------------------------------------------
(* Hard sync *)

\* The iteration a Sample step runs, from the inputs it reads: get_next
\* leaves the value it returns in the feed
StepTaken ==
    SampleStep(This, sync, GET_FREQ(freq_param'.value), GET_CLIP(clip_param'.value),
               GET_SKEW(skew_param'.value), i, sync_sig, nSamples)

InLoop == pc \in {"first", "sample"}

\* C2: a block with one trigger, at a sample whose freq > Max_Sync_Freq,
\* gives the same samples and the same phase, warped_phase, hardsync_phase
\* and hardsync_inc as the block without the trigger, from the trigger's
\* sample to the end of the block.
C2_Suppression == cmp # "off" => twin.o = This /\ twin.out = out

\* a block has ended whose trigger came on the flat +1 segment
C2_SuppressedOnFlat ==
    pc = "block" /\ cmp = "suppressed on flat" /\ path = "sine"

\* C3: hardsync_phase leaves 0 in a sample only if the sample is the pending
\* trigger index, warped_phase # 2.0 and the input freq <= Max_Sync_Freq; a
\* trigger during a sweep changes nothing: the sample ends as it does
\* without the trigger.
C3_Arming ==
    [][InLoop =>
         /\ hardsync_phase = 0 /\ hardsync_phase' # 0
               => /\ i = sync
                  /\ warped_phase # 2 * Unit
                  /\ GET_FREQ(freq_param'.value) <= Max_Sync_Freq(This)
         /\ hardsync_phase # 0 /\ i = sync
               => This' = SampleStep(This, -1, GET_FREQ(freq_param'.value),
                                     GET_CLIP(clip_param'.value),
                                     GET_SKEW(skew_param'.value), i,
                                     NoTrigger(nSamples), nSamples).o]_vars

\* a sweep has been armed by the sample that just ran
C3_JustArmed ==
    /\ pc \in {"sample", "block"}
    /\ hardsync_inc = Div(pi, Min_Sweep)
    /\ hardsync_phase = hardsync_inc \div 2 + hardsync_inc

\* C4: during a sweep hardsync_phase returns to 0 exactly in the sample in
\* which warped_phase >= 2 and phase >= 2 both hold; it never exceeds pi, and
\* at pi hardsync_inc is 0, the effective freq is Max_Sync_Freq and the sweep
\* goes on.
C4_SweepEndsAtWrap ==
    [][InLoop /\ hardsync_phase # 0 =>
         \A s \in {StepTaken} :
            /\ hardsync_phase' = 0 <=> AtWrap(s.advanced)
            /\ hardsync_phase' <= pi
            /\ hardsync_phase = pi
                  => /\ hardsync_inc = 0
                     /\ s.freq = Max_Sync_Freq(This)
                     /\ hardsync_phase' = pi \/ AtWrap(s.advanced)]_vars

\* the sweep sits at its ceiling and has not landed
C4_AtCeiling ==
    hardsync_phase = pi /\ hardsync_inc = 0 /\ path = "sine" /\ ~wrapped

\* C5: after a landing at sample `landed` of the block, every later sample
\* whose sync value is >= 1.0 is the pending trigger index when the loop
\* reaches it.
C5_Rearm ==
    pc = "sample" /\ landed # -1 /\ landed < i /\ Ge(sync_sig[i + 1], Unit)
        => sync = i

\* C6: in a sample whose effective freq >= Max_Warp_Freq the output is
\* cos(pi * warped_phase) of the warped_phase the sample started with; before
\* the wrap handling phase = warped_phase = old warped_phase + phase_inc; and
\* output and resulting state are the same for every clip and skew.
C6_PureSine ==
    [][InLoop =>
         \A s \in {StepTaken} :
            s.freq >= Max_Warp_Freq(This) =>
              /\ out' = cos(Mul(pi, warped_phase))
              /\ s.advanced.phase = Add(warped_phase, s.phase_inc)
              /\ s.advanced.warped_phase = Add(warped_phase, s.phase_inc)
              /\ \A c \in HostClip, k \in HostSkew :
                    \A r \in {SampleStep(This, sync, GET_FREQ(freq_param'.value),
                                         GET_CLIP(c), GET_SKEW(k), i, sync_sig,
                                         nSamples)} :
                       r.out = out' /\ r.o = This']_vars

\* a pure-sine sample has run through the wraparound
C6_SineWrapped == path = "sine" /\ wrapped /\ hardsync_phase = 0

-----------------------------------------------------------------------------
(* Parameter feed *)

Between(a, x, b) == (a <= x /\ x <= b) \/ (b <= x /\ x <= a)

\* C7: every value get_next returns lies between the value held before the
\* block and the target, and between the value before it and the target; the
\* N-th get_next of the block leaves value = target and change = 0; and a
\* feed at its target stays there, through get_next and through a reinit
\* with the same target.
C7_Ramp ==
    [][/\ pc = "ramp" =>
            /\ Between(held, freq_param'.value, freq_param.target)
            /\ Between(freq_param.value, freq_param'.value, freq_param.target)
            /\ i' = nSamples => /\ freq_param'.value = freq_param.target
                                /\ freq_param'.change = 0
            /\ freq_param.value = freq_param.target
                  => /\ freq_param'.value = freq_param.target
                     /\ freq_param'.change = 0
       /\ pc = "idle" /\ freq_param'.target = freq_param.value
            => freq_param'.value = freq_param.value /\ freq_param'.change = 0
      ]_vars

\* a ramp over the longest block has reached a new target before the last
\* get_next of the block
C7_Snapped ==
    /\ pc = "ramp"
    /\ nSamples = MaxBlock
    /\ i = MaxBlock - 1
    /\ freq_param.value = freq_param.target
    /\ held # freq_param.target

-----------------------------------------------------------------------------
(* Input saturation *)

\* C8: whatever the host supplies, the freq the loop body consumes is finite
\* and >= 0, the clip lies in [0, 1] and the skew in [0, 2].
C8_Saturation ==
    pc = "resolved" =>
       /\ IsFinite(resolved.freq) /\ resolved.freq >= 0
       /\ 0 <= resolved.clip /\ resolved.clip <= Unit
       /\ 0 <= resolved.skew /\ resolved.skew <= 2 * Unit

-----------------------------------------------------------------------------
(* Minimum sweep *)

\* C9: after construction 4 <= Min_Sweep <= sr / 100, and a setting outside
\* that range has been replaced by a value in [5, 15].
C9_MinSweepRange ==
    pc = "ctor" =>
       /\ 4 * Unit <= Min_Sweep /\ Min_Sweep * 100 <= sr * Unit
       /\ host.in4 < 4 * Unit \/ host.in4 * 100 > sr * Unit
             => 5 * Unit <= Min_Sweep /\ Min_Sweep <= 15 * Unit

-----------------------------------------------------------------------------
(* Constant parameters *)

\* the order of the segments within a cycle; a flat part shorter than a
\* sample may be passed over
Follows(a, b) ==
    \/ a = "none"
    \/ a = b
    \/ a = "down" /\ b \in {"flat-", "up"}
    \/ a = "flat-" /\ b = "up"
    \/ a = "up" /\ b \in {"flat+", "down"}
    \/ a = "flat+" /\ b = "down"

\* C10: with constant freq below Max_Warp_Freq, constant clip and skew and
\* no trigger, phase is the plain accumulator (phase_0 + n * phase_inc) mod 2
\* after every sample, the wraparound is taken exactly in the samples in
\* which the accumulator passes 2, and the segments follow each other in the
\* order sweep-down, flat -1, sweep-up, flat +1.
C10_Accumulator ==
    [][InLoop =>
         /\ phase' = acc'
         /\ wrapped' <=> acc' < acc
         /\ Follows(path, path')]_vars

-----------------------------------------------------------------------------
(* Start phase *)

\* the start phase a voice is to be constructed with in place of p
Folded(p) ==
    IF p > 2 * Unit THEN p % (2 * Unit)
    ELSE IF p < 0 THEN (5 * Unit) \div 4
    ELSE p

\* C11: a voice constructed with a start phase p > 2 gets the same initial
\* phase and warped_phase as a voice constructed with p mod 2, and a voice
\* constructed with a negative start phase gets the pair of the start phase
\* 1.25.
C11_Folding ==
    pc = "ctor" /\ host.in5 # 0 =>
       \A c \in {Squine([host EXCEPT !.in5 = Folded(host.in5)], This)} :
          phase = c.o.phase /\ warped_phase = c.o.warped_phase

-----------------------------------------------------------------------------
(* Output *)

\* C12: every output sample written by next lies in [-1, 1] and is neither
\* NaN nor infinite, for every sequence of finite inputs, the edges of the
\* clip and skew ranges and freq 0 included.
C12_OutputBound ==
    AtBoundary => IsFinite(out) /\ -Unit <= out /\ out <= Unit

-----------------------------------------------------------------------------
(* Sync edges *)

\* the indices of the window whose sample is >= 1.0
Edges(sig, first, last) == {j \in first..(last - 1) : Ge(sig[j + 1], Unit)}

\* C13: find_sync(sig, first, last) returns the smallest index i with
\* first <= i < last and sig[i] >= 1.0, returns -1 when there is none (an
\* empty window included), and leaves the buffer and the oscillator as they
\* were.
C13_FindSync ==
    [][pc = "scan" =>
         /\ Edges(sync_sig, i, nSamples) = {} => sync' = -1
         /\ Edges(sync_sig, i, nSamples) # {}
               => /\ sync' \in Edges(sync_sig, i, nSamples)
                  /\ \A j \in Edges(sync_sig, i, nSamples) : sync' <= j
         /\ sync_sig' = sync_sig
         /\ This' = This]_vars

\* the scan has passed a sample below 1.0 and stopped at a sample of exactly
\* 1.0 before the end of its window
C13_FoundLater ==
    /\ pc = "scanned"
    /\ sync > i
    /\ sync + 1 < nSamples
    /\ sync_sig[sync + 1] = Unit

-----------------------------------------------------------------------------
(* Segment geometry *)

\* clip in [0, 1] and skew in [0, 2]: the ends, their neighbours and points
\* between
ClipRange == {0, 1, Unit \div 3, Unit \div 2, Unit - 1, Unit}
SkewRange == {0, 1, Unit \div 2, Unit, (3 * Unit) \div 2, 2 * Unit - 1, 2 * Unit}

\* the cycle laid out for phase_inc, clip and skew is well formed
WellFormed(o, phase_inc, clip, skew) ==
    LET min_sweep == MinSweep(o, phase_inc)
        midpoint == Midpoint(skew, min_sweep)
        down == SweepLength(clip, midpoint, min_sweep)
        up == SweepLength(clip, 2 * Unit - midpoint, min_sweep)
    IN  /\ min_sweep <= midpoint /\ midpoint <= 2 * Unit - min_sweep
        /\ down >= min_sweep
        /\ up >= min_sweep
        /\ FlatLengthMinus(midpoint, down) >= 0
        /\ FlatLengthPlus(midpoint, up) >= 0

\* C14: in every sample processed with effective freq < Max_Warp_Freq, for
\* the sample's clip and skew and for every clip in [0, 1] and skew in [0, 2],
\* midpoint lies in [min_sweep, 2 - min_sweep] with min_sweep = phase_inc *
\* Min_Sweep, both sweep lengths are >= min_sweep and both flat lengths are
\* >= 0.
C14_Geometry ==
    [][InLoop =>
         \A s \in {StepTaken} :
            s.freq < Max_Warp_Freq(This) =>
              /\ WellFormed(This, s.phase_inc, GET_CLIP(clip_param'.value),
                            GET_SKEW(skew_param'.value))
              /\ \A c \in ClipRange, k \in SkewRange :
                    WellFormed(This, s.phase_inc, c, k)]_vars

\* a sweep down has run at its shortest length, from a midpoint held at
\* min_sweep: clip_in 1 and skew_in 1 at 3000 Hz
C14_FloorAndClamp ==
    /\ AtBoundary
    /\ path = "down"
    /\ hardsync_phase = 0
    /\ freq_param.value = 3000
    /\ clip_param.value = Unit
    /\ skew_param.value = Unit

-----------------------------------------------------------------------------
(* Anti-aliasing ceiling *)

\* C15: in every sample processed on the segment path (effective freq <
\* Max_Warp_Freq) that does not wrap the cycle, warped_phase ends at most
\* Max_Warp = 1 / Min_Sweep above the value it started with.
C15_WarpCeiling ==
    [][InLoop =>
         \A s \in {StepTaken} :
            s.freq < Max_Warp_Freq(This) /\ ~s.wrapped
               => Le(warped_phase', Add(warped_phase, Max_Warp(This)))]_vars

-----------------------------------------------------------------------------
(* Sweeping and the segments *)

\* the sample gives the same output and the same object whatever clip and
\* skew are
ShapeFree ==
    \A c \in HostClip, k \in HostSkew :
       \A r \in {SampleStep(This, sync, GET_FREQ(freq_param'.value), GET_CLIP(c),
                            GET_SKEW(k), i, sync_sig, nSamples)} :
          r.out = out' /\ r.o = This'

\* C16: in every sample in which hardsync_phase # 0 the segment logic is not
\* executed, and the output sample and the update of phase and warped_phase
\* do not depend on clip or skew.
C16_SweepBypass ==
    [][InLoop =>
         \A s \in {StepTaken} :
            s.requested.hardsync_phase # 0 => s.path = "sine" /\ ShapeFree]_vars

\* C16 as amended: in a sample in which hardsync_phase # 0 the segment logic
\* is left out exactly when the freq the sweep has raised is >=
\* Max_Warp_Freq, and then the output sample and the update of phase and
\* warped_phase do not depend on clip or skew; this is so in every sample
\* that starts with hardsync_phase = pi.
C16_SweepBypassAboveWarpFreq ==
    [][InLoop =>
         \A s \in {StepTaken} :
            s.requested.hardsync_phase # 0 =>
              /\ s.path = "sine" <=> s.freq >= Max_Warp_Freq(This)
              /\ s.path = "sine" => ShapeFree
              /\ hardsync_phase = pi => s.path = "sine"]_vars

\* a sweep still on its way to the ceiling has lifted 3000 Hz over
\* Max_Warp_Freq: the sample ran the pure sine and the sweep goes on
C16_SweptIntoSine ==
    /\ AtBoundary
    /\ hardsync_phase # 0
    /\ hardsync_inc # 0
    /\ path = "sine"
    /\ freq_param.value = 3000

-----------------------------------------------------------------------------
(* A trigger on the last flat part *)

\* freq >= 0 in Hz: 0, either side of Max_Warp_Freq and of Max_Sync_Freq for
\* Min_Sweep 4 at 48000 Hz, the Nyquist frequency and above
FreqRange == {0, 1, 3000, 5999, 6000, 12000, 20774, 20775, 24000, 48000}

\* C17: when a trigger arrives while hardsync_phase = 0 and warped_phase =
\* 2.0, hardsync_init sets phase = 2.0 and arms no sweep, and the wraparound
\* is taken in that same sample through the branch without sync, for every
\* freq >= 0.
C17_TriggerOnFlat ==
    [][InLoop /\ i = sync /\ hardsync_phase = 0 /\ warped_phase = 2 * Unit =>
         \A f \in FreqRange \cup {GET_FREQ(freq_param'.value)} :
            \A s \in {SampleStep(This, sync, f, GET_CLIP(clip_param'.value),
                                 GET_SKEW(skew_param'.value), i, sync_sig,
                                 nSamples)} :
               /\ s.requested.phase = 2 * Unit
               /\ s.requested.hardsync_phase = 0
               /\ s.requested.hardsync_inc = 0
               /\ s.wrapped /\ ~s.land
               /\ s.o = Wraparound(s.advanced, f, s.phase_inc,
                                   GET_CLIP(clip_param'.value),
                                   GET_SKEW(skew_param'.value))
               /\ s.o.hardsync_phase = 0 /\ s.o.hardsync_inc = 0]_vars

\* a trigger at 3000 Hz has cut the flat +1 part short: the sample wrapped
\* from phase = 2.0 + phase_inc
C17_FlatCutShort ==
    /\ pc = "sample"
    /\ i > 0
    /\ sync = i - 1
    /\ Ge(sync_sig[i], Unit)
    /\ path = "flat+"
    /\ wrapped
    /\ hardsync_phase = 0
    /\ freq_param.value = 3000
    /\ phase = PhaseInc(This, 3000)

-----------------------------------------------------------------------------
(* Sync landing *)

\* the first index of the window whose sample is >= 1.0, or -1
FirstEdge(sig, first, last) ==
    IF Edges(sig, first, last) = {} THEN -1
    ELSE CHOOSE j \in Edges(sig, first, last) :
            \A k \in Edges(sig, first, last) : j <= k

\* C18: in the sample in which warped_phase >= 2 and phase >= 2 hold while
\* hardsync_phase # 0, the step ends with phase = 0, warped_phase = 0,
\* hardsync_phase = 0 and hardsync_inc = 0, and the pending trigger index
\* becomes the result of a search of the sync input from that sample to the
\* end of the block.
C18_Landing ==
    [][InLoop =>
         \A s \in {StepTaken} :
            AtWrap(s.advanced) /\ s.advanced.hardsync_phase # 0 =>
              /\ phase' = 0 /\ warped_phase' = 0
              /\ hardsync_phase' = 0 /\ hardsync_inc' = 0
              /\ s.sync = FirstEdge(sync_sig, i, nSamples)
              /\ i + 1 < nSamples => sync' = FirstEdge(sync_sig, i, nSamples)]_vars

\* a sweep armed in an earlier block has landed at the first sample of a
\* block whose trigger is at the second: that trigger is pending
C18_LandedThenPending ==
    /\ pc = "sample"
    /\ i = 1
    /\ landed = 0
    /\ sync = 1
    /\ sync_sig[1] = 0
    /\ phase = 0 /\ warped_phase = 0
    /\ hardsync_phase = 0 /\ hardsync_inc = 0

-----------------------------------------------------------------------------
(* Every sweep lands *)

\* C19: once a sweep is armed the oscillator returns to hardsync_phase = 0,
\* for every sequence of finite freq >= 0, clip and skew and across block
\* boundaries.
C19_SweepLands == (hardsync_phase # 0) ~> (hardsync_phase = 0)

-----------------------------------------------------------------------------
(* The wraparound of the free-running oscillator *)

\* C20: after every wraparound taken while no hardsync sweep is on,
\* 0 <= phase <= phase_inc of that sample: phase is the phase the sample
\* reached less 2 when that is at most phase_inc, and phase_inc / 2
\* otherwise; warped_phase is min(phase / sweep_length, Max_Warp), with the
\* first sweep length of the new cycle from the sample's clip and skew, when
\* freq < Max_Warp_Freq, and is phase otherwise.
C20_WildAliasingGuard ==
    [][InLoop =>
         \A s \in {StepTaken} :
            s.wrapped /\ s.advanced.hardsync_phase = 0 =>
              LET clip == GET_CLIP(clip_param'.value)
                  skew == GET_SKEW(skew_param'.value)
                  less2 == Sub(s.advanced.phase, 2 * Unit)
                  min_sweep == Mul(s.phase_inc, Min_Sweep)
                  midpoint == Clamp(skew, min_sweep, 2 * Unit - min_sweep)
                  sweep_length_1 == fmax(Mul(clip, midpoint), min_sweep)
              IN  /\ 0 <= phase' /\ phase' <= s.phase_inc
                  /\ phase' = IF Le(less2, s.phase_inc) THEN less2
                              ELSE s.phase_inc \div 2
                  /\ warped_phase' =
                        IF s.freq < Max_Warp_Freq(This)
                        THEN fmin(Div(phase', sweep_length_1), Max_Warp(This))
                        ELSE phase']_vars

\* a cycle has wrapped below Max_Warp_Freq with some phase left over, and
\* warped_phase is that phase in the frame of the new cycle's first sweep
C20_WrappedIntoSweep ==
    /\ wrapped
    /\ hardsync_phase = 0
    /\ GET_FREQ(freq_param.value) < Max_Warp_Freq(This)
    /\ phase > 0
    /\ warped_phase > phase
    /\ warped_phase < Max_Warp(This)

-----------------------------------------------------------------------------
(* The hardsync sentinel *)

\* C21: at every sample boundary either hardsync_phase = 0 and
\* hardsync_inc = 0, or 0 < hardsync_phase <= pi with hardsync_inc =
\* pi / Min_Sweep while hardsync_phase < pi and hardsync_inc = 0 once
\* hardsync_phase = pi; and hardsync_phase never decreases during a sweep.
C21_Sentinel ==
    /\ [](AtBoundary =>
            \/ hardsync_phase = 0 /\ hardsync_inc = 0
            \/ /\ 0 < hardsync_phase /\ hardsync_phase < pi
               /\ hardsync_inc = Div(pi, Min_Sweep)
            \/ hardsync_phase = pi /\ hardsync_inc = 0)
    /\ [][hardsync_phase # 0 /\ hardsync_phase' # 0
             => hardsync_phase' >= hardsync_phase]_vars

-----------------------------------------------------------------------------
(* Initialisation *)

\* C22: for every start phase in0(5), 0 included, phase and warped_phase hold
\* values the constructor has assigned when its call next(1) starts: they
\* are the same whatever the memory of the object held before.
C22_Initialised ==
    pc = "ctor" =>
       \A mem \in Garbage :
          \A c \in {Squine(host, [This EXCEPT !.phase = mem[1],
                                             !.warped_phase = mem[2]])} :
             c.o.phase = phase /\ c.o.warped_phase = warped_phase

-----------------------------------------------------------------------------
(* The seed *)

\* the voice has been constructed with a start phase at a freq below
\* Max_Warp_Freq
Seeded == pc = "ctor" /\ host.in5 # 0 /\ GET_FREQ(host.in0) < Max_Warp_Freq(This)

\* the two sweep lengths and the midpoint init_phase worked with
SeedMidpoint ==
    Clamp(GET_SKEW(host.in2), Mul(PhaseInc(This, GET_FREQ(host.in0)), Min_Sweep),
          2 * Unit - Mul(PhaseInc(This, GET_FREQ(host.in0)), Min_Sweep))
SeedSweep1 ==
    fmax(Mul(GET_CLIP(host.in1), SeedMidpoint),
         Mul(PhaseInc(This, GET_FREQ(host.in0)), Min_Sweep))
SeedSweep2 ==
    fmax(Mul(GET_CLIP(host.in1), 2 * Unit - SeedMidpoint),
         Mul(PhaseInc(This, GET_FREQ(host.in0)), Min_Sweep))

\* C23: for a seed in [0, 2] and freq < Max_Warp_Freq, init_phase leaves
\* warped_phase and phase in [0, 2], with phase in the segment warped_phase
\* designates: [0, sweep_length_1) for warped_phase < 1, [sweep_length_1,
\* midpoint] for warped_phase = 1, (midpoint, midpoint + sweep_length_2) for
\* 1 < warped_phase < 2, [midpoint + sweep_length_2, 2] for warped_phase = 2.
C23_SeedSegments ==
    Seeded =>
       /\ 0 <= warped_phase /\ warped_phase <= 2 * Unit
       /\ 0 <= phase /\ phase <= 2 * Unit
       /\ warped_phase < Unit => phase < SeedSweep1
       /\ warped_phase = Unit => SeedSweep1 <= phase /\ phase <= SeedMidpoint
       /\ Unit < warped_phase /\ warped_phase < 2 * Unit
             => SeedMidpoint < phase /\ phase < SeedMidpoint + SeedSweep2
       /\ warped_phase = 2 * Unit => SeedMidpoint + SeedSweep2 <= phase

\* C23 as it holds: the same with the ends of the two sweeps included,
\* [0, sweep_length_1] for warped_phase < 1 and [midpoint, midpoint +
\* sweep_length_2] for 1 < warped_phase < 2.
C23_SeedSegmentsClosed ==
    Seeded =>
       /\ 0 <= warped_phase /\ warped_phase <= 2 * Unit
       /\ 0 <= phase /\ phase <= 2 * Unit
       /\ warped_phase < Unit => phase <= SeedSweep1
       /\ warped_phase = Unit => SeedSweep1 <= phase /\ phase <= SeedMidpoint
       /\ Unit < warped_phase /\ warped_phase < 2 * Unit
             => SeedMidpoint <= phase /\ phase <= SeedMidpoint + SeedSweep2
       /\ warped_phase = 2 * Unit => SeedMidpoint + SeedSweep2 <= phase

\* a voice seeded into the sweep up at freq 0 with clip_in 1: the sweep has
\* no length and phase is the midpoint
C23_SeededIntoEmptySweep ==
    /\ Seeded
    /\ Unit < warped_phase /\ warped_phase < 2 * Unit
    /\ SeedSweep2 = 0
    /\ phase = SeedMidpoint

\* C24: earlier revision: at the sample where a hard-sync sweep lands, the
\* member freq is set back to the frequency the host supplied, which is the
\* freq of the same voice had no trigger come (twin), whatever the rate of
\* the freq input: static, control-rate or audio-rate.
C24_FreqRestored ==
    [][InLoop /\ landed' = i => earlier'.freq = twin'.freq]_vars

\* C25: earlier revision, control-rate clip and skew: after the constructor's
\* body and at the end of each block the internal clip is 1 - clamp(clip_in,
\* 0, 1) and the internal skew is 1 - clamp(skew_in, -1, 1), clip_in and
\* skew_in being what the host supplied for the block (in0(1), in0(2)).
C25_ControlRateShape ==
    pc \in {"ctor", "block"} /\ earlier.clip_kr /\ earlier.skew_kr
       => /\ earlier.clip = Unit - Clamp(host.in1, 0, Unit)
          /\ earlier.skew = Unit - Clamp(host.in2, -Unit, Unit)

====
